---- MODULE Spec2Model ----
(***************************************************************************)
(* Structured logging and request-observability layer of next-ai-ready:    *)
(* the pino configuration (shared/lib/logger.ts, both revisions), the      *)
(* child loggers, timers and audit helper built on it, and the request     *)
(* middleware withLogging (shared/lib/api-logger.ts).                      *)
(*                                                                         *)
(* JavaScript values are tagged records; an object is the sequence of its  *)
(* own <<key, value>> pairs in insertion order.  An emitted record is the  *)
(* JSON line pino writes, kept as the sequence of its <<key, value>>       *)
(* pairs, so that a key written twice (once by a binding, once by the      *)
(* logged object) is visible; a reader of the line sees the last one.      *)
(***************************************************************************)
EXTENDS Integers, Sequences, FiniteSets, TLC

\* ------------------------------------------------------------------------
\* Bounds of the model
\* ------------------------------------------------------------------------
MaxClock == 2
MaxReq == 1
MaxOps == 1
MaxTimers == 1
MaxChildren == 1
MaxDone == 2
MaxConc == 2

\* ------------------------------------------------------------------------
\* JavaScript values
\* ------------------------------------------------------------------------
U == [t |-> "undefined"]
S(s) == [t |-> "string", s |-> s]
N(n) == [t |-> "number", n |-> n]
O(pairs) == [t |-> "object", o |-> pairs]
\* new Date(ms).toISOString() / pino.stdTimeFunctions.isoTime
Iso(ms) == [t |-> "isotime", n |-> ms]
\* an Error instance with its name/message/stack triple
Err(name, message) == [t |-> "Error", name |-> name, message |-> message, stack |-> message \o "@stack"]
\* an object with no usable string conversion: Object.create(null)
NoStr == [t |-> "nostring"]

\* null
Null == [t |-> "null"]

IsObj(v) == v.t = "object"

\* JavaScript truthiness, as used by `if (env.LOG_LEVEL)`, `a || b`, `x ? :`
Truthy(v) ==
  CASE v.t = "undefined" -> FALSE
    [] v.t = "string" -> v.s # ""
    [] v.t = "number" -> v.n # 0
    [] OTHER -> TRUE

\* own keys of an object
Keys(pairs) == {pairs[i][1] : i \in 1..Len(pairs)}

\* property read o[k]; a missing property reads undefined.  On a JSON line
\* with a repeated key this is the last occurrence, as JSON.parse reads it.
Get(pairs, k) ==
  IF k \in Keys(pairs)
  THEN pairs[CHOOSE i \in 1..Len(pairs) :
               pairs[i][1] = k /\ \A j \in (i+1)..Len(pairs) : pairs[j][1] # k][2]
  ELSE U

\* property write o[k] = v of an object literal: an existing key keeps its
\* position and takes the new value, a new key is appended
Put(pairs, k, v) ==
  IF k \in Keys(pairs)
  THEN [i \in 1..Len(pairs) |-> IF pairs[i][1] = k THEN <<k, v>> ELSE pairs[i]]
  ELSE Append(pairs, <<k, v>>)

\* object spread {...a, ...b}: b's own properties written over a, in order
RECURSIVE Spread(_, _)
Spread(a, b) ==
  IF b = << >> THEN a
  ELSE Spread(Put(a, Head(b)[1], Head(b)[2]), Tail(b))

\* String(value)
StringOf(v) ==
  CASE v.t = "string" -> [ok |-> TRUE, s |-> v.s]
    [] v.t = "undefined" -> [ok |-> TRUE, s |-> "undefined"]
    [] v.t = "null" -> [ok |-> TRUE, s |-> "null"]
    [] v.t = "number" -> [ok |-> TRUE, s |-> "<number>"]
    [] v.t = "Error" -> [ok |-> TRUE, s |-> v.name \o ": " \o v.message]
    [] v.t = "object" -> [ok |-> TRUE, s |-> "[object Object]"]
    [] OTHER -> [ok |-> FALSE, s |-> "TypeError: Cannot convert object to primitive value"]

\* ------------------------------------------------------------------------
\* Level registry and logger configuration (logger.ts)
\* ------------------------------------------------------------------------
LOG_LEVELS ==
  [fatal |-> 60, error |-> 50, warn |-> 40, info |-> 30, debug |-> 20, trace |-> 10]

LogLevel == DOMAIN LOG_LEVELS

\* env.ts: the validated environment object holds the keys of its schema
\* only; NODE_ENV defaults to development.  LOG_LEVEL is not in the schema.
createEnv(penv) ==
  [NODE_ENV |-> IF penv.NODE_ENV = U THEN "development" ELSE penv.NODE_ENV.s]

\* env.<key>: a key the schema does not declare reads undefined
envGet(e, k) ==
  IF k = "NODE_ENV" THEN S(e.NODE_ENV)
  ELSE IF k \in DOMAIN e THEN e[k]
  ELSE U

getLogLevel(e) ==
  IF Truthy(envGet(e, "LOG_LEVEL")) THEN envGet(e, "LOG_LEVEL").s
  ELSE IF e.NODE_ENV = "development" THEN "debug"
  ELSE IF e.NODE_ENV = "production" THEN "info"
  ELSE "silent"

REDACT_PATHS == {"password", "token", "secret", "authorization", "cookie"}
CENSOR == "***REDACTED***"

\* the base fields without the version
baseBindings_noVersion(e) ==
  << <<"pid", N(4242)>>,
     <<"hostname", S("localhost")>>,
     <<"service", S("next-ai-ready")>>,
     <<"env", S(e.NODE_ENV)>>,
     <<"name", S("next-ai-ready")>> >>
\* baseConfig.base, plus the name option pino adds to the base bindings
baseBindings(e) ==
  << <<"pid", N(4242)>>,
     <<"hostname", S("localhost")>>,
     <<"service", S("next-ai-ready")>>,
     <<"version", S("0.1.0")>>,
     <<"env", S(e.NODE_ENV)>>,
     <<"name", S("next-ai-ready")>> >>

\* one non-development configuration, the level chosen inline
createLoggerConfig_inlineLevel(e) ==
  IF e.NODE_ENV = "development"
  THEN [level |-> "debug", pretty |-> TRUE, redact |-> FALSE, base |-> baseBindings(e)]
  ELSE [level |-> "info", pretty |-> FALSE, redact |-> TRUE, base |-> baseBindings(e)]
createLoggerConfig(e) ==
  IF e.NODE_ENV = "development"
  THEN [level |-> getLogLevel(e), pretty |-> TRUE, redact |-> FALSE, base |-> baseBindings(e)]
  ELSE IF e.NODE_ENV = "test"
  THEN [level |-> "silent", pretty |-> FALSE, redact |-> FALSE, base |-> baseBindings(e)]
  ELSE [level |-> getLogLevel(e), pretty |-> FALSE, redact |-> TRUE, base |-> baseBindings(e)]

\* ------------------------------------------------------------------------
\* pino: serialization of one record
\* ------------------------------------------------------------------------
\* formatters.log: the logged object without its undefined-valued entries
formattersLog(object) == SelectSeq(object, LAMBDA p : p[2] # U)

\* JSON text of a value, read back: an object's undefined-valued properties
\* are not written, at any depth
RECURSIVE jsonValue(_)
jsonValue(v) ==
  IF IsObj(v)
  THEN LET kept == SelectSeq(v.o, LAMBDA p : p[2] # U)
       IN  O([i \in 1..Len(kept) |-> <<kept[i][1], jsonValue(kept[i][2])>>])
  ELSE v

\* redaction below a top-level key: the named headers of <key>.headers
redactHeaders(v, names) ==
  IF IsObj(v) /\ IsObj(Get(v.o, "headers"))
  THEN LET h == Get(v.o, "headers").o
       IN  O(Put(v.o, "headers",
                 O([i \in 1..Len(h) |->
                      IF h[i][1] \in names THEN <<h[i][1], S(CENSOR)>> ELSE h[i]])))
  ELSE v

\* the redact option with the top-level paths only
redact_topLevel(k, v) == IF k \in REDACT_PATHS THEN S(CENSOR) ELSE v
\* the redact option of the production configuration, per top-level key
redact(k, v) ==
  IF k \in REDACT_PATHS THEN S(CENSOR)
  ELSE IF k = "req" THEN redactHeaders(v, {"authorization", "cookie"})
  ELSE IF k = "res" THEN redactHeaders(v, {"set-cookie"})
  ELSE v

\* the entries written as they are given
serialize_asGiven(redacting, object) ==
  [i \in 1..Len(object) |->
     <<object[i][1],
       IF redacting THEN redact(object[i][1], object[i][2]) ELSE object[i][2]>>]
\* what pino writes for the entries of an object (a logged object or the
\* bindings of a child): defined values only, redacted when the logger redacts
serialize(redacting, object) ==
  LET kept == SelectSeq(object, LAMBDA p : p[2] # U)
  IN  [i \in 1..Len(kept) |->
         <<kept[i][1],
           jsonValue(IF redacting THEN redact(kept[i][1], kept[i][2]) ELSE kept[i][2])>>]

\* a level is written only above the minimum
isLevelEnabled_above(min, level) ==
  min # "silent" /\ LOG_LEVELS[level] > LOG_LEVELS[min]
\* a level is written by a logger whose minimum is not above it; silent is
\* above every level
isLevelEnabled(min, level) ==
  min # "silent" /\ LOG_LEVELS[level] >= LOG_LEVELS[min]

\* the line of one record: level, time, bindings, the logged object, message
asJson(lg, level, object, msg, now) ==
  << <<"level", S(level)>>, <<"time", Iso(now)>> >>
    \o lg.chindings
    \o serialize(lg.redacting, formattersLog(object))
    \o (IF msg = U THEN << >> ELSE << <<"msg", msg>> >>)

\* the pino-pretty transport of the development configuration prints a
\* record without the keys of its ignore option; without a transport the
\* line goes to standard output as it is
transport(lg, line) ==
  IF lg.pretty
  THEN SelectSeq(line, LAMBDA p : p[1] \notin {"pid", "hostname"})
  ELSE line

\* logger.<level>(object, msg): the lines added to the output, each with the
\* call that produced it, the record handed to the sink (line) and what the
\* sink prints of it (shown)
write(lg, level, object, msg, now) ==
  IF isLevelEnabled(lg.level, level)
  THEN << [line |-> asJson(lg, level, object, msg, now),
           shown |-> transport(lg, asJson(lg, level, object, msg, now)),
           by |-> lg, level |-> level, obj |-> object] >>
  ELSE << >>

\* the call itself, written or not
attempt(lg, level) == [level |-> level, min |-> lg.level]

\* ------------------------------------------------------------------------
\* Loggers (logger.ts)
\* ------------------------------------------------------------------------
\* pino(createLoggerConfig()): the base logger
pino(cfg) ==
  [level |-> cfg.level, redacting |-> cfg.redact, pretty |-> cfg.pretty,
   chindings |-> serialize(cfg.redact, cfg.base), raw |-> cfg.base,
   parent |-> 0, enhanced |-> FALSE]

\* a child that shares its parent's bindings: the parent gets them too
child_shared(ls, p, bindings) ==
  LET all == ls[p].chindings \o serialize(ls[p].redacting, bindings)
  IN  Append([ls EXCEPT ![p].chindings = all],
             [level |-> ls[p].level, redacting |-> ls[p].redacting,
              pretty |-> ls[p].pretty, chindings |-> all,
              raw |-> ls[p].raw \o bindings, parent |-> p, enhanced |-> FALSE])
\* logger.child(bindings): the loggers there were, then the new one; the
\* parent is left as it is
child(ls, p, bindings) ==
  Append(ls, [level |-> ls[p].level, redacting |-> ls[p].redacting,
              pretty |-> ls[p].pretty,
              chindings |-> ls[p].chindings \o serialize(ls[p].redacting, bindings),
              raw |-> ls[p].raw \o bindings,
              parent |-> p, enhanced |-> FALSE])

\* enhanceLogger: startTimer is attached to the logger it is given
enhanceLogger(ls, l) == [ls EXCEPT ![l].enhanced = TRUE]

\* createChildLogger(context): a child of the base logger
createChildLogger(ls, context) == child(ls, 1, context)

\* createRequestLogger(req)
createRequestLogger(ls, req) ==
  child(ls, 1,
        << <<"req", O(<< <<"method", req.method>>,
                         <<"url", req.url>>,
                         <<"userAgent", Get(req.headers, "user-agent")>>,
                         <<"ip", IF Truthy(Get(req.headers, "x-forwarded-for"))
                                 THEN Get(req.headers, "x-forwarded-for")
                                 ELSE Get(req.headers, "x-real-ip")>> >>)>> >>)

\* createAppLogger(component)
createAppLogger(ls, component) ==
  enhanceLogger(createChildLogger(ls, << <<"component", S(component)>> >>), Len(ls) + 1)

\* the loggers the module creates when it is loaded: logger, dbLogger,
\* authLogger, auditLogger
BASE == 1
DB == 2
AUTH == 3
AUDIT == 4
moduleLoggers(e) ==
  \* pino refuses a level it does not know: no logger is made
  IF createLoggerConfig(e).level \notin LogLevel \cup {"silent"} THEN << >> ELSE
  LET l1 == enhanceLogger(<< pino(createLoggerConfig(e)) >>, 1)
      l2 == enhanceLogger(createChildLogger(l1, << <<"component", S("database")>> >>), 2)
      l3 == enhanceLogger(createChildLogger(l2, << <<"component", S("auth")>> >>), 3)
      l4 == enhanceLogger(createChildLogger(l3, << <<"type", S("audit")>> >>), 4)
  IN  l4

\* ------------------------------------------------------------------------
\* State
\* ------------------------------------------------------------------------
VARIABLES
  processEnv, \* process.env when the modules were loaded
  env,      \* the validated environment object of env.ts
  loggers,  \* the module's loggers and the application's children of them
  timers,   \* timer handles: start time, bound child logger, operation, revision
  reqs,     \* per request: request, response, request logger, the wrapper's position
  clock,    \* Date.now()
  out,      \* the lines the last step wrote to the output stream
  last      \* the last step: operation, logger calls made, value returned

vars == <<processEnv, env, loggers, timers, reqs, clock, out, last>>

\* ------------------------------------------------------------------------
\* Inputs
\* ------------------------------------------------------------------------
\* process.env when the module is loaded
ProcessEnvs ==
  [NODE_ENV : {U, S("development"), S("production"), S("test")},
   LOG_LEVEL : {U, S("verbose")} \cup {S(l) : l \in LogLevel},
   LOG_PRETTY : {U, S("true")}]

\* the process environments of the runs in which the application is exercised
DeployedEnvs ==
  { [NODE_ENV |-> U, LOG_LEVEL |-> U, LOG_PRETTY |-> U],
    [NODE_ENV |-> S("production"), LOG_LEVEL |-> S("warn"), LOG_PRETTY |-> S("true")],
    [NODE_ENV |-> S("test"), LOG_LEVEL |-> S("trace"), LOG_PRETTY |-> U] }

HEALTH == "/api/health"

ReqInputs ==
  { [url |-> S(HEALTH), method |-> S("GET"), body |-> U, query |-> O(<< >>),
     headers |-> << <<"user-agent", S("kube-probe")>> >>],
    [url |-> S("/api/hello"), method |-> S("GET"),
     body |-> O(<< <<"sent", S("with GET")>> >>),
     query |-> O(<< <<"name", S("Ann")>> >>),
     headers |-> << <<"x-forwarded-for", S("1.2.3.4")>> >>],
    [url |-> S("/api/users"), method |-> S("POST"), query |-> O(<< >>),
     body |-> O(<< <<"name", S("john")>>, <<"password", S("hunter2")>> >>),
     headers |-> << <<"user-agent", S("curl")>>, <<"x-real-ip", S("10.0.0.7")>> >>] }

\* requests to the health path and to URLs near it: with a query string,
\* with a trailing slash, with a longer name, and one without a URL
UrlInputs ==
  { [url |-> u, method |-> m, body |-> U, query |-> O(<< >>),
     headers |-> << <<"user-agent", S("kube-probe")>> >>] :
      u \in {S(HEALTH), S("/api/health?check=1"), S("/api/health/"),
             S("/api/healthz"), U},
      m \in {S("GET"), S("POST")} }

\* the two requests that are in flight together
ConcInputs ==
  { in \in ReqInputs : in.url # S(HEALTH) }

Rands == {"k3j9x", "q81zp"}
StatusCodes == {200, 500}
RespBodies == { O(<< <<"error", S("Method not allowed")>> >>) }
Throwables == { Err("Error", "boom"), S("oops"), NoStr }

\* values handed to logError: thrown values, nothing at all, and a plain
\* object that has name, message and stack but is not an Error instance
ErrorLike ==
  O(<< <<"name", S("ValidationError")>>, <<"message", S("bad input")>>,
       <<"stack", S("bad input@stack")>> >>)
ErrorValues == Throwables \cup {U, Null, ErrorLike}
ErrorContexts ==
  { U,
    O(<< <<"operation", S("user.create")>> >>),
    O(<< <<"error", S("from context")>>, <<"userId", S("u1")>> >>) }
Operations == {"db.user.get"}

ExtraFields ==
  { U,
    O(<< <<"userCount", N(50)>> >>),
    O(<< <<"duration", N(99)>>, <<"found", U>> >>) }

ChildContexts ==
  { << <<"component", S("payment")>> >>,
    << <<"token", S("abc123")>>, <<"tenant", S("acme")>> >> }

DocExample ==
  << <<"user", S("john@example.com")>>, <<"password", S("secret123")>>,
     <<"token", S("jwt-token-here")>>, <<"data", S("safe-data")>> >>

SampleObjects ==
  { << <<"user", S("john@example.com")>>, <<"password", S("secret123")>>,
       <<"token", S("jwt-token-here")>>, <<"data", S("safe-data")>> >>,
    << <<"req", O(<< <<"headers", O(<< <<"authorization", S("Bearer t0p")>>,
                                        <<"cookie", S("sid=77")>>,
                                        <<"host", S("example.com")>> >>)>> >>)>>,
       <<"res", O(<< <<"headers", O(<< <<"set-cookie", S("sid=78")>> >>)>> >>)>>,
       <<"secret", N(1234)>>, <<"msg", S("Auth request")>> >>,
    << <<"operation", S("user.get")>>, <<"userId", U>>,
       <<"error", O(<< <<"name", S("Unknown")>>, <<"stack", U>> >>)>> >> }

\* every level with one object, every object at one level
DirectCalls ==
  {<<level, DocExample>> : level \in LogLevel}
    \cup {<<"info", o>> : o \in SampleObjects}

AuditEvents == {"user.login"}
ActorIds == {U, S("u1")}
AuditContexts ==
  { U,
    O(<< <<"ip", S("1.2.3.4")>>, <<"success", U>> >>),
    O(<< <<"event", S("user.logout")>>, <<"userId", S("u2")>> >>),
    O(<< <<"timestamp", S("yesterday")>>, <<"token", S("abc123")>> >>),
    O(<< <<"type", S("other")>> >>) }

\* `...x` of an argument that was not passed spreads nothing
props(x) == IF x = U THEN << >> ELSE x.o

NoReq ==
  [pc |-> "idle", bypass |-> FALSE, url |-> U, method |-> U, body |-> U,
   query |-> U, headers |-> << >>, id |-> U, startTime |-> U, logger |-> U,
   statusCode |-> 200, patched |-> FALSE, chain |-> FALSE, ops |-> 0,
   handlerCalls |-> 0, thrown |-> U, raised |-> U,
   nIncoming |-> 0, nCompleted |-> 0, nFailed |-> 0, records |-> {}]

\* a step: the operation, the request or timer it is about, the logger calls
\* it made, the value it returned, and its arguments or the original
\* response operations it reached
Step(op, who, logs, ret, info) ==
  [op |-> op, who |-> who, logs |-> logs, ret |-> ret, info |-> info]

\* a call that ended by raising e instead of returning
Raised(e) == [t |-> "raised", e |-> e]

\* the modules are loaded under one of the process environments `penvs`
Load(penvs) ==
  /\ processEnv \in penvs
  /\ env = createEnv(processEnv)
  /\ loggers = moduleLoggers(env)
  /\ timers = << >>
  /\ reqs = [r \in 1..MaxConc |-> NoReq]
  /\ clock = 0
  /\ out = << >>
  /\ last = Step("load", 0, << >>,
                 IF moduleLoggers(env) = << >>
                 THEN Raised(Err("Error", "default level must be included in custom levels"))
                 ELSE U,
                 << >>)

Init == Load(DeployedEnvs)
\* every setting of NODE_ENV, LOG_LEVEL and LOG_PRETTY
InitConfig == Load(ProcessEnvs)

\* time passes
Tick ==
  /\ clock < MaxClock
  /\ clock' = clock + 1
  /\ out' = << >>
  /\ last' = Step("tick", 0, << >>, U, << >>)
  /\ UNCHANGED <<processEnv, env, loggers, timers, reqs>>

\* ------------------------------------------------------------------------
\* Loggers and helpers used by application code (logger.ts)
\* ------------------------------------------------------------------------
\* the loggers made by createChildLogger / createAppLogger calls of the
\* application (not the module's own, a timer's or a request's)
UserChildren == (AUDIT + 1)..Len(loggers)

\* all but the last
Front(seq) == SubSeq(seq, 1, Len(seq) - 1)

CreateChildLogger(context) ==
  /\ Cardinality(UserChildren) < MaxChildren
  /\ loggers' = createChildLogger(loggers, context)
  /\ out' = << >>
  /\ last' = Step("createChildLogger", 0, << >>, U, << >>)
  /\ UNCHANGED <<processEnv, env, timers, reqs, clock>>

CreateAppLogger(component) ==
  /\ Cardinality(UserChildren) < MaxChildren
  /\ loggers' = createAppLogger(loggers, component)
  /\ out' = << >>
  /\ last' = Step("createAppLogger", 0, << >>, U, << >>)
  /\ UNCHANGED <<processEnv, env, timers, reqs, clock>>

\* a direct call logger.<level>(object) on any logger
LogDirect(l, level, object) ==
  /\ out' = write(loggers[l], level, object, U, clock)
  /\ last' = Step("log", l, << attempt(loggers[l], level) >>, U, << >>)
  /\ UNCHANGED <<processEnv, env, loggers, timers, reqs, clock>>

\* a timer that announces its start
StartTimer_announce(l, operation) ==
  /\ loggers[l].enhanced
  /\ Len(timers) < MaxTimers
  /\ LET made == child(loggers, l, << <<"operation", S(operation)>>,
                                      <<"type", S("performance")>> >>)
     IN  /\ loggers' = Front(made)
         /\ timers' = Append(timers, [startTime |-> clock, logger |-> made[Len(made)],
                                      operation |-> operation, api |-> "done",
                                      calls |-> << >>, emitted |-> 0])
         /\ out' = write(made[Len(made)], "info",
                         << <<"msg", S("Operation " \o operation \o " started")>> >>,
                         U, clock)
  /\ last' = Step("startTimer", 0, << >>, U, << >>)
  /\ UNCHANGED <<processEnv, env, reqs, clock>>
\* enhanced.startTimer(operation), second revision
StartTimer(l, operation) ==
  /\ loggers[l].enhanced
  /\ Len(timers) < MaxTimers
  /\ LET made == child(loggers, l, << <<"operation", S(operation)>>,
                                      <<"type", S("performance")>> >>)
     IN  /\ loggers' = Front(made)
         /\ timers' = Append(timers, [startTime |-> clock, logger |-> made[Len(made)],
                                      operation |-> operation, api |-> "done",
                                      calls |-> << >>, emitted |-> 0])
  /\ out' = << >>
  /\ last' = Step("startTimer", 0, << >>, U, << >>)
  /\ UNCHANGED <<processEnv, env, reqs, clock>>

\* createPerformanceLogger(operation), first revision
CreatePerformanceLogger(operation) ==
  /\ Len(timers) < MaxTimers
  /\ LET made == createChildLogger(loggers, << <<"operation", S(operation)>>,
                                               <<"type", S("performance")>> >>)
     IN  /\ loggers' = Front(made)
         /\ timers' = Append(timers, [startTime |-> clock, logger |-> made[Len(made)],
                                      operation |-> operation, api |-> "end",
                                      calls |-> << >>, emitted |-> 0])
  /\ out' = << >>
  /\ last' = Step("createPerformanceLogger", 0, << >>, U, << >>)
  /\ UNCHANGED <<processEnv, env, reqs, clock>>

\* {duration, <msgKey>: ..., ...additionalContext}
timerRecord_spreadLast(additionalContext, duration, msgKey, operation) ==
  Spread(<< <<"duration", N(duration)>>,
            <<msgKey, S("Operation " \o operation \o " completed")>> >>,
         props(additionalContext))
\* the object a timer logs: {...additionalContext, duration, <msgKey>: ...}
timerRecord(additionalContext, duration, msgKey, operation) ==
  Put(Put(Spread(<< >>, props(additionalContext)), "duration", N(duration)),
      msgKey, S("Operation " \o operation \o " completed"))

\* timer.done(additionalContext), second revision
TimerDone(t, additionalContext) ==
  /\ timers[t].api = "done"
  /\ Len(timers[t].calls) < MaxDone
  /\ LET duration == clock - timers[t].startTime
         lines == write(timers[t].logger, "info",
                        timerRecord(additionalContext, duration, "msg",
                                    timers[t].operation), U, clock)
     IN  /\ out' = lines
         /\ timers' = [timers EXCEPT
                         ![t].calls = Append(@, [at |-> clock, duration |-> duration]),
                         ![t].emitted = @ + Len(lines)]
         /\ last' = Step("done", t, << attempt(timers[t].logger, "info") >>,
                         N(duration), << additionalContext >>)
  /\ UNCHANGED <<processEnv, env, loggers, reqs, clock>>

\* perfLogger.end(additionalContext), first revision
PerfEnd(t, additionalContext) ==
  /\ timers[t].api = "end"
  /\ Len(timers[t].calls) < MaxDone
  /\ LET duration == clock - timers[t].startTime
         lines == write(timers[t].logger, "info",
                        timerRecord(additionalContext, duration, "message",
                                    timers[t].operation), U, clock)
     IN  /\ out' = lines
         /\ timers' = [timers EXCEPT
                         ![t].calls = Append(@, [at |-> clock, duration |-> duration]),
                         ![t].emitted = @ + Len(lines)]
         /\ last' = Step("end", t, << attempt(timers[t].logger, "info") >>,
                         N(duration), << additionalContext >>)
  /\ UNCHANGED <<processEnv, env, loggers, reqs, clock>>

\* {...context, event, userId, timestamp}
auditRecord_spreadFirst(event, userId, context, now) ==
  Put(Put(Put(Spread(<< >>, props(context)), "event", S(event)), "userId", userId),
      "timestamp", Iso(now))
\* the object logAuditEvent logs: {event, userId, ...context, timestamp}
auditRecord(event, userId, context, now) ==
  Put(Spread(<< <<"event", S(event)>>, <<"userId", userId>> >>, props(context)),
      "timestamp", Iso(now))

\* the audit record logged at debug level
LogAuditEvent_debug(event, userId, context) ==
  /\ out' = write(loggers[AUDIT], "debug", auditRecord(event, userId, context, clock),
                  U, clock)
  /\ last' = Step("logAuditEvent", 0, << attempt(loggers[AUDIT], "debug") >>, U,
                  << S(event), userId, context >>)
  /\ UNCHANGED <<processEnv, env, loggers, timers, reqs, clock>>
LogAuditEvent(event, userId, context) ==
  /\ out' = write(loggers[AUDIT], "info", auditRecord(event, userId, context, clock),
                  U, clock)
  /\ last' = Step("logAuditEvent", 0, << attempt(loggers[AUDIT], "info") >>, U,
                  << S(event), userId, context >>)
  /\ UNCHANGED <<processEnv, env, loggers, timers, reqs, clock>>

\* the object logError logs: {...context, error: {name, message, stack}}
errorContext(error, context) ==
  Put(Spread(<< >>, props(context)), "error",
      O(<< <<"name", IF error.t = "Error" THEN S(error.name) ELSE S("Unknown")>>,
           <<"message", IF error.t = "Error" THEN S(error.message)
                        ELSE S(StringOf(error).s)>>,
           <<"stack", IF error.t = "Error" THEN S(error.stack) ELSE U>> >>))

\* logError(error, context), first revision
LogError(error, context) ==
  /\ IF error.t # "Error" /\ ~StringOf(error).ok
     THEN \* String(error) throws while errorContext is built
          /\ out' = << >>
          /\ last' = Step("logError", 0, << >>,
                          Raised(Err("TypeError", StringOf(error).s)),
                          << error, context >>)
     ELSE /\ out' = write(loggers[BASE], "error", errorContext(error, context),
                          S("Error occurred"), clock)
          /\ last' = Step("logError", 0, << attempt(loggers[BASE], "error") >>, U,
                          << error, context >>)
  /\ UNCHANGED <<processEnv, env, loggers, timers, reqs, clock>>

\* ------------------------------------------------------------------------
\* Request middleware (api-logger.ts)
\* ------------------------------------------------------------------------
\* `${Date.now()}-${Math.random().toString(36).substring(2, 11)}`
generateRequestId(now, rnd) == [t |-> "string", s |-> rnd, ms |-> now]

\* JSON.stringify(body), the text res.json hands to res.send
JsonText(body) == [t |-> "string", s |-> "<json>", of |-> body]

\* req.startTime ? Date.now() - req.startTime : 0
durationOf(req, now) == IF Truthy(req.startTime) THEN now - req.startTime.n ELSE 0

\* the normalized error both the middleware and the helpers log
normalizedError(error) ==
  O(<< <<"name", IF error.t = "Error" THEN S(error.name) ELSE S("Unknown")>>,
       <<"message", IF error.t = "Error" THEN S(error.message)
                    ELSE S(StringOf(error).s)>>,
       <<"stack", IF error.t = "Error" THEN S(error.stack) ELSE U>> >>)

\* the body logged whatever the method
incomingRecord_anyMethod(req) ==
  << <<"requestId", req.id>>, <<"method", req.method>>, <<"url", req.url>>,
     <<"query", req.query>>, <<"body", req.body>>,
     <<"msg", S("Incoming request")>> >>
incomingRecord(req) ==
  << <<"requestId", req.id>>, <<"method", req.method>>, <<"url", req.url>>,
     <<"query", req.query>>,
     <<"body", IF req.method # S("GET") THEN req.body ELSE U>>,
     <<"msg", S("Incoming request")>> >>

\* the object onComplete logs
completedRecord(req, statusCode, responseBody, now) ==
  << <<"requestId", req.id>>, <<"statusCode", N(statusCode)>>,
     <<"duration", N(durationOf(req, now))>>,
     <<"responseBody", IF statusCode >= 400 THEN responseBody ELSE U>>,
     <<"msg", S("Request completed")>> >>

failedRecord(req, error, now) ==
  << <<"requestId", req.id>>, <<"duration", N(durationOf(req, now))>>,
     <<"error", normalizedError(error)>>,
     <<"msg", S("Request failed")>> >>

\* the request id and the request context each of the lines carries
identities(lines) ==
  {<<Get(lines[n].line, "requestId"), Get(lines[n].line, "req")>> : n \in 1..Len(lines)}

\* callbacks that read a variable of the module, which the latest wrapper
\* call has overwritten
closure_shared(rs, r) ==
  IF \E q \in DOMAIN rs : q # r /\ rs[q].patched
  THEN rs[CHOOSE q \in DOMAIN rs : q # r /\ rs[q].patched]
  ELSE rs[r]
\* the req and requestLogger the callbacks of request r close over: those of
\* its own call of the wrapped handler
closure(rs, r) == rs[r]

\* the health path compared without its query string or trailing slash
isHealthCheck_path(url) ==
  url \in {S("/api/health"), S("/api/health?check=1"), S("/api/health/")}
\* a wrong path in the comparison
isHealthCheck_slash(url) == url = S("/api/health/")
\* req.url === '/api/health'
isHealthCheck(url) == url = S(HEALTH)

\* the wrapped handler up to the point where it hands over to the handler
WithLogging(r, in, chain, rnd) ==
  /\ reqs[r].pc = "idle"
  /\ IF isHealthCheck(in.url)
     THEN \* return handler(req, res)
          /\ reqs' = [reqs EXCEPT ![r] =
                        [@ EXCEPT !.pc = "running", !.bypass = TRUE,
                                  !.url = in.url, !.method = in.method,
                                  !.body = in.body, !.query = in.query,
                                  !.headers = in.headers, !.chain = chain,
                                  !.handlerCalls = @ + 1]]
          /\ out' = << >>
          /\ last' = Step("withLogging", r, << >>, U, << >>)
          /\ UNCHANGED loggers
     ELSE LET made == createRequestLogger(loggers, in)
              lg == made[Len(made)]
              req == [reqs[r] EXCEPT !.url = in.url, !.method = in.method,
                                     !.body = in.body, !.query = in.query,
                                     !.headers = in.headers, !.chain = chain,
                                     !.id = generateRequestId(clock, rnd),
                                     !.startTime = N(clock),
                                     !.logger = lg]
              lines == write(lg, "info", incomingRecord(req), U, clock)
          IN  /\ loggers' = Front(made)
              /\ out' = lines
              /\ reqs' = [reqs EXCEPT ![r] =
                            [req EXCEPT !.pc = "running", !.patched = TRUE,
                                        !.handlerCalls = @ + 1,
                                        !.nIncoming = @ + Len(lines),
                                        !.records = @ \cup identities(lines)]]
              /\ last' = Step("withLogging", r, << attempt(lg, "info") >>,
                              U, << >>)
  /\ UNCHANGED <<processEnv, env, timers, clock>>

\* res.status(code) in the handler
ResStatus(r, code) ==
  /\ reqs[r].pc = "running"
  /\ reqs[r].statusCode # code
  /\ reqs' = [reqs EXCEPT ![r].statusCode = code]
  /\ out' = << >>
  /\ last' = Step("status", r, << >>, U, << >>)
  /\ UNCHANGED <<processEnv, env, loggers, timers, clock>>

\* The operations of the response object a call of `op` goes through, with
\* the body each is given.  The host's json hands the serialized body to
\* this.send, and its send hands it to this.end; a response object whose
\* operations do not delegate reaches `op` alone.
callChain(op, body, chain) ==
  IF ~chain THEN << <<op, body>> >>
  ELSE IF op = "json" THEN << <<"json", body>>, <<"send", JsonText(body)>>, <<"end", U>> >>
  ELSE IF op = "send" THEN << <<"send", body>>, <<"end", U>> >>
  ELSE << <<"end", U>> >>

\* interceptResponse: what the patched operations log for one call of the
\* handler; res.end passes no body to onComplete
RECURSIVE intercepted(_, _, _)
intercepted(req, calls, now) ==
  IF calls = << >> THEN << >>
  ELSE write(req.logger, "info",
             completedRecord(req, req.statusCode,
                             IF Head(calls)[1] = "end" THEN U ELSE Head(calls)[2],
                             now), U, now)
       \o intercepted(req, Tail(calls), now)

\* what the host's own operation returns for a call
originalResult(op, body) == [t |-> "result", op |-> op, body |-> body]

\* a patched operation that calls the original without the body
interceptedCall_noBody(op, body) ==
  [events |-> << [e |-> "onComplete", op |-> op],
                 [e |-> "original", op |-> op, body |-> U] >>,
   ret |-> originalResult(op, U)]
\* one call of a patched operation: onComplete, then the original with the
\* arguments given, whose result is returned
interceptedCall(op, body) ==
  [events |-> << [e |-> "onComplete", op |-> op],
                 [e |-> "original", op |-> op, body |-> body] >>,
   ret |-> originalResult(op, body)]

\* what happens, in order, when the response operations `calls` are reached
RECURSIVE eventsOf(_, _)
eventsOf(calls, patched) ==
  IF calls = << >> THEN << >>
  ELSE (IF patched THEN interceptedCall(Head(calls)[1], Head(calls)[2]).events
        ELSE << [e |-> "original", op |-> Head(calls)[1], body |-> Head(calls)[2]] >>)
       \o eventsOf(Tail(calls), patched)

\* the handler calls res.json(body), res.send(body) or res.end()
Respond(r, op, body) ==
  /\ reqs[r].pc = "running"
  /\ reqs[r].ops < MaxOps
  /\ LET calls == callChain(op, body, reqs[r].chain)
         lines == IF reqs[r].patched
                  THEN intercepted([closure(reqs, r) EXCEPT !.statusCode = reqs[r].statusCode],
                                   calls, clock)
                  ELSE << >>
     IN  /\ out' = lines
         /\ reqs' = [reqs EXCEPT ![r].ops = @ + 1, ![r].nCompleted = @ + Len(lines),
                                 ![r].records = @ \cup identities(lines)]
         /\ last' = Step(op, r,
                         IF reqs[r].patched
                         THEN [i \in 1..Len(calls) |-> attempt(reqs[r].logger, "info")]
                         ELSE << >>,
                         IF reqs[r].patched THEN interceptedCall(op, body).ret
                         ELSE originalResult(op, body),
                         << [e |-> "call", op |-> op, body |-> body] >>
                           \o eventsOf(calls, reqs[r].patched))
  /\ UNCHANGED <<processEnv, env, loggers, timers, clock>>

ResJson(r, body) == Respond(r, "json", body)
ResSend(r, body) == Respond(r, "send", body)
ResEnd(r) == Respond(r, "end", U)

\* the handler returns (its promise resolves)
HandlerReturn(r) ==
  /\ reqs[r].pc = "running"
  /\ reqs' = [reqs EXCEPT ![r].pc = "done"]
  /\ out' = << >>
  /\ last' = Step("return", r, << >>, U, << >>)
  /\ UNCHANGED <<processEnv, env, loggers, timers, clock>>

\* the handler throws `error` (or its promise rejects with it)
HandlerThrow(r, error) ==
  /\ reqs[r].pc = "running"
  /\ IF reqs[r].bypass
     THEN /\ reqs' = [reqs EXCEPT ![r].pc = "raised", ![r].thrown = error,
                                  ![r].raised = error]
          /\ out' = << >>
          /\ last' = Step("throw", r, << >>, U, << >>)
     ELSE IF error.t # "Error" /\ ~StringOf(error).ok
     THEN \* String(error) throws inside the catch block
          /\ reqs' = [reqs EXCEPT ![r].pc = "raised", ![r].thrown = error,
                                  ![r].raised = Err("TypeError", StringOf(error).s)]
          /\ out' = << >>
          /\ last' = Step("throw", r, << >>, U, << >>)
     ELSE LET lines == write(closure(reqs, r).logger, "error",
                             failedRecord(closure(reqs, r), error, clock), U, clock)
          IN  /\ reqs' = [reqs EXCEPT ![r].pc = "raised", ![r].thrown = error,
                                      ![r].raised = error,
                                      ![r].nFailed = @ + Len(lines),
                                      ![r].records = @ \cup identities(lines)]
              /\ out' = lines
              /\ last' = Step("throw", r,
                              << attempt(reqs[r].logger, "error") >>, U, << >>)
  /\ UNCHANGED <<processEnv, env, loggers, timers, clock>>

\* the host answers a request whose wrapped handler raised: it sets the
\* status to 500 and ends the response, through the response object the
\* handler was given
HostErrorResponse(r) ==
  /\ reqs[r].pc = "raised"
  /\ LET req == [reqs[r] EXCEPT !.statusCode = 500]
         calls == << <<"end", U>> >>
         lines == IF req.patched
                  THEN intercepted([closure(reqs, r) EXCEPT !.statusCode = 500],
                                   calls, clock)
                  ELSE << >>
     IN  /\ out' = lines
         /\ reqs' = [reqs EXCEPT ![r] = [req EXCEPT !.pc = "answered",
                                                    !.nCompleted = @ + Len(lines),
                                                    !.records = @ \cup identities(lines)]]
         /\ last' = Step("hostError", r,
                         IF req.patched THEN << attempt(req.logger, "info") >> ELSE << >>,
                         IF req.patched THEN interceptedCall("end", U).ret
                         ELSE originalResult("end", U),
                         << [e |-> "call", op |-> "end", body |-> U] >>
                           \o eventsOf(calls, req.patched))
  /\ UNCHANGED <<processEnv, env, loggers, timers, clock>>

\* the object logApiSuccess logs
apiSuccessRecord(req, operation, context) ==
  Put(Spread(<< <<"requestId", req.id>>, <<"method", req.method>>,
                <<"url", req.url>>, <<"operation", S(operation)>> >>, props(context)),
      "msg", S("API operation successful"))

\* logApiSuccess(req, operation, context), called by the handler of request r
LogApiSuccess(r, operation, context) ==
  /\ reqs[r].pc = "running"
  /\ LET made == createRequestLogger(loggers, reqs[r])
         lg == made[Len(made)]
     IN  /\ loggers' = Front(made)
         /\ out' = write(lg, "info", apiSuccessRecord(reqs[r], operation, context),
                         U, clock)
         /\ last' = Step("logApiSuccess", r, << attempt(lg, "info") >>, U, << >>)
  /\ UNCHANGED <<processEnv, env, timers, reqs, clock>>

\* ------------------------------------------------------------------------
\* Specification
\* ------------------------------------------------------------------------
\* application code using the loggers and helpers
NextLogger ==
  \/ Tick
  \/ \E c \in ChildContexts : CreateChildLogger(c)
  \/ \E c \in {"payment"} : CreateAppLogger(c)
  \/ \E l \in 1..Len(loggers), c \in DirectCalls : LogDirect(l, c[1], c[2])
  \/ \E l \in {BASE, AUDIT} \cup UserChildren, op \in Operations : StartTimer(l, op)
  \/ \E op \in Operations : CreatePerformanceLogger(op)
  \/ \E e \in AuditEvents, u \in ActorIds, c \in AuditContexts : LogAuditEvent(e, u, c)

\* application code timing its operations
NextTimer ==
  \/ Tick
  \/ \E c \in {"payment"} : CreateAppLogger(c)
  \/ \E l \in {BASE, AUDIT} \cup UserChildren, op \in Operations : StartTimer(l, op)
  \/ \E op \in Operations : CreatePerformanceLogger(op)
  \/ \E t \in 1..Len(timers), x \in ExtraFields : TimerDone(t, x)
  \/ \E t \in 1..Len(timers), x \in ExtraFields : PerfEnd(t, x)
  \/ \E l \in 1..Len(loggers) : LogDirect(l, "info", DocExample)
  \/ \E e \in AuditEvents, u \in ActorIds : LogAuditEvent(e, u, U)

\* requests served through withLogging, whose handlers may log as well
NextApi ==
  \/ Tick
  \/ \E r \in 1..MaxReq, in \in ReqInputs, chain \in BOOLEAN, rnd \in Rands :
       WithLogging(r, in, chain, rnd)
  \/ \E r \in 1..MaxReq, code \in StatusCodes : ResStatus(r, code)
  \/ \E r \in 1..MaxReq, b \in RespBodies : ResJson(r, b)
  \/ \E r \in 1..MaxReq, b \in RespBodies : ResSend(r, b)
  \/ \E r \in 1..MaxReq : ResEnd(r)
  \/ \E r \in 1..MaxReq : HandlerReturn(r)
  \/ \E r \in 1..MaxReq, e \in Throwables : HandlerThrow(r, e)
  \/ \E r \in 1..MaxReq : HostErrorResponse(r)
  \/ \E r \in 1..MaxReq, c \in {U, O(<< <<"name", S("Ann")>> >>)} :
       LogApiSuccess(r, "hello.fetch", c)
  \/ \E c \in DirectCalls : LogDirect(BASE, c[1], c[2])
  \/ \E e \in AuditEvents, u \in ActorIds : LogAuditEvent(e, u, U)

\* requests to the health path and to the URLs near it
NextBypass ==
  \/ Tick
  \/ \E r \in 1..MaxReq, in \in UrlInputs, chain \in BOOLEAN, rnd \in Rands :
       WithLogging(r, in, chain, rnd)
  \/ \E r \in 1..MaxReq, b \in RespBodies : ResJson(r, b)
  \/ \E r \in 1..MaxReq : ResEnd(r)
  \/ \E r \in 1..MaxReq : HandlerReturn(r)
  \/ \E r \in 1..MaxReq, e \in Throwables : HandlerThrow(r, e)
  \/ \E r \in 1..MaxReq : HostErrorResponse(r)

\* several requests in flight: the steps of their handlers interleave
NextConcurrent ==
  \/ Tick
  \/ \E r \in 1..MaxConc, in \in ConcInputs, rnd \in Rands :
       WithLogging(r, in, TRUE, rnd)
  \/ \E r \in 1..MaxConc, b \in RespBodies : ResJson(r, b)
  \/ \E r \in 1..MaxConc : HandlerReturn(r)
  \/ \E r \in 1..MaxConc : HandlerThrow(r, Err("Error", "boom"))
  \/ \E r \in 1..MaxConc : HostErrorResponse(r)

\* the loggers used right after the modules were loaded
NextConfig ==
  \/ Tick
  \/ \E l \in 1..Len(loggers), level \in LogLevel : LogDirect(l, level, DocExample)
  \/ \E e \in AuditEvents, u \in ActorIds, c \in AuditContexts : LogAuditEvent(e, u, c)
  \/ \E e \in ErrorValues, c \in ErrorContexts : LogError(e, c)

Next == NextLogger \/ NextTimer \/ NextApi \/ NextConfig

\* the whole program
Spec == Init /\ [][Next]_vars
\* the logger module and its helpers
SpecLogger == Init /\ [][NextLogger]_vars
\* timers and the loggers they hang from
SpecTimer == Init /\ [][NextTimer]_vars
\* the request middleware
SpecApi == Init /\ [][NextApi]_vars
SpecBypass == Init /\ [][NextBypass]_vars
SpecConcurrent == Init /\ [][NextConcurrent]_vars
\* the configuration, under every process environment
SpecConfig == InitConfig /\ [][NextConfig]_vars

\* ------------------------------------------------------------------------
\* Properties of the request middleware
\* ------------------------------------------------------------------------
\* C1: a non-bypassed request whose handler called exactly one
\* response-emitting operation and returned has exactly one 'Request
\* completed' record (where info records are written at all), and every such
\* record carries the status the handler set.
C1_SingleCompletion ==
  /\ \A r \in 1..MaxReq :
       (/\ reqs[r].pc = "done"
        /\ ~reqs[r].bypass
        /\ reqs[r].ops = 1
        /\ isLevelEnabled(reqs[r].logger.level, "info"))
       => reqs[r].nCompleted = 1
  /\ last.op \in {"json", "send", "end"}
       => \A i \in 1..Len(out) :
            Get(out[i].line, "statusCode") = N(reqs[last.who].statusCode)

\* C2: when the handler of a non-bypassed request raises E, the wrapped
\* handler raises E itself, after exactly one error-level 'Request failed'
\* record that carries E's message (where error records are written at all).
C2_ErrorPropagation ==
  \A r \in 1..MaxReq :
    (reqs[r].pc = "raised" /\ ~reqs[r].bypass)
    => /\ reqs[r].raised = reqs[r].thrown
       /\ isLevelEnabled(reqs[r].logger.level, "error") => reqs[r].nFailed = 1
       /\ (last.op = "throw" /\ last.who = r)
            => \A i \in 1..Len(out) :
                 /\ Get(out[i].line, "level") = S("error")
                 /\ Get(out[i].line, "msg") = S("Request failed")
                 /\ reqs[r].thrown.t = "Error"
                      => Get(Get(out[i].line, "error").o, "message")
                           = S(reqs[r].thrown.message)

\* C3: a request to the health-check path is handed to the handler once, as
\* it came: no request id, no interception, no request logger, no record
\* from the middleware, and what the handler raises is what the wrapper raises.
C3_HealthBypass ==
  \A r \in 1..MaxReq :
    reqs[r].url = S(HEALTH)
    => /\ reqs[r].bypass
       /\ reqs[r].handlerCalls = 1
       /\ reqs[r].id = U /\ reqs[r].startTime = U
       /\ ~reqs[r].patched /\ reqs[r].logger = U
       /\ reqs[r].nIncoming = 0 /\ reqs[r].nCompleted = 0 /\ reqs[r].nFailed = 0
       /\ (last.who = r /\ last.op \in {"withLogging", "status", "json", "send", "end",
                                       "return", "throw", "hostError"})
            => out = << >> /\ last.logs = << >>
       /\ reqs[r].pc \in {"raised", "answered"} => reqs[r].raised = reqs[r].thrown
       /\ reqs[r].pc \in {"running", "done", "raised", "answered"}

\* a health-check request whose handler answered and then raised a value
\* that has no string conversion
C3_Witness ==
  \E r \in 1..MaxReq :
    /\ reqs[r].url = S(HEALTH)
    /\ reqs[r].ops = 1
    /\ reqs[r].pc = "raised"
    /\ reqs[r].thrown = NoStr
    /\ env.NODE_ENV = "production"

\* ------------------------------------------------------------------------
\* Properties of the loggers
\* ------------------------------------------------------------------------
\* C4: with the configured minimum M one of the six levels, a call at level
\* L on any logger (core, child, timer or request logger) writes its record
\* if and only if weight(L) >= weight(M).
C4_LevelFilter ==
  LET M == createLoggerConfig(env).level
      passing == {i \in 1..Len(last.logs) :
                    LOG_LEVELS[last.logs[i].level] >= LOG_LEVELS[M]}
  IN  M \in LogLevel
      => /\ Len(out) = Cardinality(passing)
         /\ \A i \in 1..Len(out) :
              /\ out[i].level \in {last.logs[j].level : j \in passing}
              /\ Get(out[i].line, "level") = S(out[i].level)

\* a call at exactly the minimum is written
C4_Witness ==
  /\ last.op = "log"
  /\ createLoggerConfig(env).level = "info"
  /\ last.logs = << [level |-> "info", min |-> "info"] >>
  /\ Len(out) = 1
  /\ last.who > AUDIT

\* C5: under the test environment nothing is written, at any level, by any
\* logger or helper, whatever LOG_LEVEL was in the process environment.
C5_TestSilence ==
  env.NODE_ENV = "test"
  => /\ out = << >>
     /\ \A r \in 1..MaxReq :
          reqs[r].nIncoming = 0 /\ reqs[r].nCompleted = 0 /\ reqs[r].nFailed = 0

\* under test a handler raised and the error-level call wrote nothing
C5_Witness ==
  /\ env.NODE_ENV = "test"
  /\ last.op = "throw"
  /\ Len(last.logs) = 1
  /\ last.logs[1].level = "error"
  /\ out = << >>

\* the scalar values of an object, at any depth
RECURSIVE Leaves(_)
Leaves(pairs) ==
  UNION {IF IsObj(pairs[i][2]) THEN Leaves(pairs[i][2].o) ELSE {pairs[i][2]} :
           i \in 1..Len(pairs)}

\* the headers object below a top-level req / res value, if there is one
headersOf(v) ==
  IF IsObj(v) /\ IsObj(Get(v.o, "headers")) THEN Get(v.o, "headers").o ELSE << >>

sensitiveHeaders(k) ==
  IF k = "req" THEN {"authorization", "cookie"}
  ELSE IF k = "res" THEN {"set-cookie"}
  ELSE {}

\* the values an input holds at the configured paths
secretValues(pairs) ==
  UNION {IF pairs[i][1] \in REDACT_PATHS
         THEN (IF IsObj(pairs[i][2]) THEN Leaves(pairs[i][2].o) ELSE {pairs[i][2]})
         ELSE {h[2] : h \in {x \in {headersOf(pairs[i][2])[j] :
                                       j \in 1..Len(headersOf(pairs[i][2]))} :
                               x[1] \in sensitiveHeaders(pairs[i][1])}} :
           i \in 1..Len(pairs)} \ {U}

\* the values an input holds anywhere else
clearValues(pairs) ==
  UNION {IF pairs[i][1] \in REDACT_PATHS THEN {}
         ELSE IF sensitiveHeaders(pairs[i][1]) # {} /\ IsObj(pairs[i][2])
         THEN LET v == pairs[i][2].o
                  hs == headersOf(pairs[i][2])
              IN  Leaves(SelectSeq(v, LAMBDA q : q[1] # "headers"))
                    \cup Leaves(SelectSeq(hs, LAMBDA q :
                                            q[1] \notin sensitiveHeaders(pairs[i][1])))
         ELSE IF IsObj(pairs[i][2]) THEN Leaves(pairs[i][2].o)
         ELSE {pairs[i][2]} :
           i \in 1..Len(pairs)}

\* C6: in production every record carries the censor string at each
\* configured top-level key and nested header path that is present, in the
\* logged object and in the logger's bindings alike, and the value that was
\* there occurs nowhere in the record unless the input also holds it at a
\* path that is not configured.
C6_Redaction ==
  env.NODE_ENV = "production"
  => \A n \in 1..Len(out) :
       LET line == out[n].line
           input == out[n].by.raw \o out[n].obj
       IN  /\ \A i \in 1..Len(line) :
                /\ line[i][1] \in REDACT_PATHS => line[i][2] = S(CENSOR)
                /\ \A j \in 1..Len(headersOf(line[i][2])) :
                     headersOf(line[i][2])[j][1] \in sensitiveHeaders(line[i][1])
                     => headersOf(line[i][2])[j][2] = S(CENSOR)
           /\ \A i \in 1..Len(input) :
                (input[i][1] \in REDACT_PATHS /\ input[i][2] # U)
                => input[i][1] \in Keys(line)
           /\ (secretValues(input) \ clearValues(input)) \cap Leaves(line) = {}

\* a production record of an object with nested authorization and cookie
\* headers, a set-cookie response header and a top-level secret
C6_Witness ==
  /\ env.NODE_ENV = "production"
  /\ last.op = "log"
  /\ Len(out) = 1
  /\ S("Bearer t0p") \in secretValues(out[1].obj)
  /\ N(1234) \in secretValues(out[1].obj)
  /\ Get(headersOf(Get(out[1].line, "req")), "cookie") = S(CENSOR)
  /\ Get(headersOf(Get(out[1].line, "res")), "set-cookie") = S(CENSOR)
  /\ Get(headersOf(Get(out[1].line, "req")), "host") = S("example.com")

\* no undefined value at any depth
RECURSIVE noUndefined(_)
noUndefined(pairs) ==
  \A i \in 1..Len(pairs) :
    /\ pairs[i][2] # U
    /\ IsObj(pairs[i][2]) => noUndefined(pairs[i][2].o)

\* C7: no record written holds a field whose value is undefined, whether
\* the field came from the logged object or from a logger's bindings.
C7_NoUndefined ==
  \A n \in 1..Len(out) : noUndefined(out[n].line)

\* the incoming record of a GET request: body is undefined in the object
\* logged and the user agent in the request logger's bindings
C7_Witness ==
  /\ last.op = "withLogging"
  /\ Len(out) = 1
  /\ "body" \in Keys(out[1].obj) /\ Get(out[1].obj, "body") = U
  /\ "body" \notin Keys(out[1].line)
  /\ U \in Leaves(out[1].by.raw)

\* C8: no step changes the minimum level, the redaction mode or the fixed
\* fields of a logger that exists; creating a child or a timer of it only
\* adds a logger.
C8_ParentUnchanged ==
  [][ /\ Len(loggers') >= Len(loggers)
      /\ \A i \in 1..Len(loggers) :
           /\ loggers'[i].level = loggers[i].level
           /\ loggers'[i].redacting = loggers[i].redacting
           /\ loggers'[i].chindings = loggers[i].chindings ]_vars

\* the core logger, after a child and a timer were made of it, writes a
\* record of its own
C8_Witness ==
  /\ last.op = "log"
  /\ last.who = BASE
  /\ Len(loggers) > AUDIT
  /\ loggers[Len(loggers)].parent = BASE
  /\ Len(timers) = 1
  /\ timers[1].logger.parent = BASE
  /\ Len(out) = 1
  /\ Keys(out[1].line) \cap {"operation", "component", "tenant"} = {}

\* C9: done / end returns the time elapsed since the timer was started, and
\* the record it writes has that value as its duration, whatever the extra
\* fields are.
C9_TimerDuration ==
  last.op \in {"done", "end"}
  => /\ last.ret = N(clock - timers[last.who].startTime)
     /\ \A n \in 1..Len(out) : Get(out[n].line, "duration") = last.ret

\* a timer finished one tick after its start with extra fields that hold a
\* duration of their own
C9_Witness ==
  /\ last.op \in {"done", "end"}
  /\ last.info = << O(<< <<"duration", N(99)>>, <<"found", U>> >>) >>
  /\ last.ret = N(1)
  /\ Len(out) = 1

C11_AsStated ==
  last.op = "logAuditEvent" => Len(out) = 1

\* C11, amended: a call of logAuditEvent writes exactly one record when the
\* audit logger's minimum level is info or below, and none otherwise (the
\* test environment); no other condition decides it.
C11_AuditCount ==
  last.op = "logAuditEvent"
  => LET M == loggers[AUDIT].level
     IN  /\ Len(out) = IF M \in LogLevel /\ LOG_LEVELS[M] <= LOG_LEVELS["info"]
                       THEN 1 ELSE 0
         /\ \A n \in 1..Len(out) :
              /\ out[n].level = "info"
              /\ <<"type", S("audit")>> \in {out[n].line[i] : i \in 1..Len(out[n].line)}

\* an audit call in production, with a context, wrote its one record
C11_Witness ==
  /\ last.op = "logAuditEvent"
  /\ env.NODE_ENV = "production"
  /\ last.info[3] # U
  /\ Len(out) = 1

\* C12: logError returns normally for every error value and every context.
C12_NeverRaises ==
  last.op = "logError" => last.ret = U

\* C13: logError writes exactly one error-level record with message 'Error
\* occurred'; its error field has the name, message and stack of a value that
\* carries the three, and otherwise name 'Unknown', the value's string
\* conversion as message and no stack; every key of context is there too, and
\* a context key error does not replace the error field.
C13_NormalizedError ==
  last.op = "logError"
  => LET errorValue == last.info[1]
         context == props(last.info[2])
         triple == \/ errorValue.t = "Error"
                   \/ IsObj(errorValue) /\ {"name", "message", "stack"} \subseteq Keys(errorValue.o)
         field(k) == IF errorValue.t = "Error" THEN S(errorValue[k])
                     ELSE Get(errorValue.o, k)
     IN  isLevelEnabled(loggers[BASE].level, "error")
         => /\ Len(out) = 1
            /\ out[1].level = "error"
            /\ Get(out[1].line, "msg") = S("Error occurred")
            /\ LET e == Get(out[1].line, "error")
               IN  /\ IsObj(e)
                   /\ IF triple
                      THEN /\ Get(e.o, "name") = field("name")
                           /\ Get(e.o, "message") = field("message")
                           /\ Get(e.o, "stack") = field("stack")
                      ELSE /\ Get(e.o, "name") = S("Unknown")
                           /\ StringOf(errorValue).ok
                           /\ Get(e.o, "message") = S(StringOf(errorValue).s)
                           /\ "stack" \notin Keys(e.o)
            /\ \A k \in Keys(context) \ {"error"} :
                 Get(out[1].line, k) = Get(context, k)

\* C14: in development and production the minimum level of the core logger
\* is the LOG_LEVEL of the process environment when one of the six names is
\* given there, and otherwise debug in development and info in production;
\* calls on the core logger are filtered by that level.
C14_EffectiveLevel ==
  LET override == processEnv.LOG_LEVEL
      M == IF override # U THEN override.s
           ELSE IF env.NODE_ENV = "development" THEN "debug" ELSE "info"
  IN  (env.NODE_ENV \in {"development", "production"} /\ M \in LogLevel)
      => /\ loggers # << >>
         /\ loggers[BASE].level = M
         /\ (last.op = "log" /\ last.who = BASE)
              => (out # << >> <=> LOG_LEVELS[last.logs[1].level] >= LOG_LEVELS[M])

\* C15: with a LOG_LEVEL that is none of the six names the construction of
\* the core logger fails and leaves no logger; with each of the six names,
\* and with none, it succeeds.
C15_InvalidOverride ==
  LET override == processEnv.LOG_LEVEL
  IN  IF override # U /\ override.s \notin LogLevel
      THEN loggers = << >> /\ last.op = "load" /\ last.ret # U
      ELSE loggers # << >>

\* C16: the core logger's output is human-readable exactly when LOG_PRETTY
\* is set or the environment is development; otherwise each record is one
\* structured line.
C16_PrettyOutput ==
  LET forced == Truthy(processEnv.LOG_PRETTY)
  IN  /\ loggers # << >>
      /\ loggers[BASE].pretty <=> (forced \/ env.NODE_ENV = "development")
      /\ \A n \in 1..Len(out) :
           out[n].shown = out[n].line
             <=> ~(forced \/ env.NODE_ENV = "development")

C18_TimerRecords ==
  /\ last.op \in {"startTimer", "createPerformanceLogger"} => out = << >>
  /\ \A n \in 1..Len(out) :
       <<"type", S("performance")>> \in {out[n].by.raw[i] : i \in 1..Len(out[n].by.raw)}
       => /\ last.op \in {"done", "end"}
          /\ out[n].by = timers[last.who].logger
  /\ last.op \in {"done", "end"}
       => LET calls == timers[last.who].calls
          IN  /\ calls # << >>
              /\ last.ret = N(calls[Len(calls)].duration)
              /\ Len(out) = IF isLevelEnabled(timers[last.who].logger.level, "info")
                            THEN 1 ELSE 0
  /\ \A t \in 1..Len(timers) :
       LET calls == timers[t].calls
       IN  /\ timers[t].emitted = IF isLevelEnabled(timers[t].logger.level, "info")
                                  THEN Len(calls) ELSE 0
           /\ \A i, j \in 1..Len(calls) :
                /\ i < j => calls[i].at <= calls[j].at
                /\ calls[i].at < calls[j].at => calls[i].duration < calls[j].duration

\* a timer completed twice, the second time later than the first
C18_Witness ==
  \E t \in 1..Len(timers) :
    /\ Len(timers[t].calls) = 2
    /\ timers[t].calls[1].at < timers[t].calls[2].at
    /\ timers[t].emitted = 2
    /\ last.op \in {"done", "end"}
    /\ last.who = t
    /\ Len(out) = 1

\* C19: a request that is not bypassed gets exactly one 'Incoming request'
\* info record (where info records are written at all), written by the
\* wrapper before the handler has done anything; it carries method, url and
\* query, and the request body if and only if the method is not GET.
C19_IncomingRecord ==
  /\ \A r \in 1..MaxReq :
       (reqs[r].pc # "idle" /\ ~reqs[r].bypass)
       => reqs[r].nIncoming = IF isLevelEnabled(reqs[r].logger.level, "info")
                              THEN 1 ELSE 0
  /\ \A n \in 1..Len(out) :
       Get(out[n].line, "msg") = S("Incoming request")
       => /\ last.op = "withLogging"
          /\ Len(out) = 1
          /\ out[n].level = "info"
          /\ LET req == reqs[last.who]
                 line == out[n].line
             IN  /\ ~req.bypass
                 /\ req.pc = "running" /\ req.ops = 0 /\ req.thrown = U
                 /\ req.handlerCalls = 1
                 /\ Get(line, "method") = req.method
                 /\ Get(line, "url") = req.url
                 /\ Get(line, "query") = req.query
                 /\ Get(line, "requestId") = req.id
                 /\ IF req.method = S("GET") THEN "body" \notin Keys(line)
                    ELSE Get(line, "body") = req.body

\* the incoming record of a GET request that was sent with a body
C19_Witness ==
  /\ last.op = "withLogging"
  /\ Len(out) = 1
  /\ reqs[last.who].method = S("GET")
  /\ reqs[last.who].body # U
  /\ "body" \notin Keys(out[1].line)
  /\ Get(out[1].line, "query") = O(<< <<"name", S("Ann")>> >>)

\* C20: a call of a patched json, send or end first runs onComplete, which
\* writes the completion record with the status code as it is, then calls the
\* original operation once with the arguments it was given, and returns what
\* the original returned.
C20_PassThrough ==
  (last.op \in {"json", "send", "end"} /\ reqs[last.who].patched)
  => LET call == last.info[1]
         events == Tail(last.info)
         originals == {i \in 1..Len(events) :
                         events[i].e = "original" /\ events[i].op = call.op}
         completions == {i \in 1..Len(events) : events[i].e = "onComplete"}
     IN  /\ call.op = last.op
         /\ Len(events) >= 2
         /\ events[1] = [e |-> "onComplete", op |-> call.op]
         /\ events[2] = [e |-> "original", op |-> call.op, body |-> call.body]
         /\ Cardinality(originals) = 1
         /\ last.ret = originalResult(call.op, call.body)
         /\ Len(out) = IF isLevelEnabled(reqs[last.who].logger.level, "info")
                       THEN Cardinality(completions) ELSE 0
         /\ \A n \in 1..Len(out) :
              /\ Get(out[n].line, "msg") = S("Request completed")
              /\ Get(out[n].line, "statusCode") = N(reqs[last.who].statusCode)

\* res.status(500).send(body) on a response whose send hands over to end
C20_Witness ==
  /\ last.op = "send"
  /\ reqs[last.who].patched
  /\ reqs[last.who].chain
  /\ reqs[last.who].statusCode = 500
  /\ last.info[1].body # U
  /\ Len(out) = 2
  /\ Get(out[1].line, "responseBody") = last.info[1].body

\* ------------------------------------------------------------------------
\* Further properties of the request middleware
\* ------------------------------------------------------------------------
\* the values an object holds under one of the keys `names`, at any depth
RECURSIVE fieldValues(_, _)
fieldValues(pairs, names) ==
  UNION {(IF pairs[i][1] \in names
          THEN (IF IsObj(pairs[i][2]) THEN Leaves(pairs[i][2].o) ELSE {pairs[i][2]})
          ELSE {})
         \cup (IF IsObj(pairs[i][2]) THEN fieldValues(pairs[i][2].o, names) ELSE {}) :
           i \in 1..Len(pairs)}

\* C22: in production no record the middleware writes for a request holds,
\* in clear, the value of a password, token or secret field of the body of a
\* non-GET request, or of the body of a response with status >= 400.
C22_BodyRedaction ==
  (/\ env.NODE_ENV = "production"
   /\ last.op \in {"withLogging", "json", "send", "end", "throw"})
  => LET req == reqs[last.who]
         names == {"password", "token", "secret"}
         inRequest == IF req.method # S("GET") /\ IsObj(req.body)
                      THEN fieldValues(req.body.o, names) ELSE {}
         inResponse == IF /\ last.op \in {"json", "send"}
                          /\ req.statusCode >= 400
                          /\ IsObj(last.info[1].body)
                       THEN fieldValues(last.info[1].body.o, names) ELSE {}
     IN  \A n \in 1..Len(out) :
           (inRequest \cup inResponse) \cap Leaves(out[n].line) = {}

\* C23: a request that is not bypassed has at most one terminal record, a
\* 'Request completed' or a 'Request failed' one, never both.  (Stated for
\* response objects whose operations do not call one another, where one
\* call gives one completion record.)
C23_OneTerminalRecord ==
  \A r \in 1..MaxReq :
    (reqs[r].pc # "idle" /\ ~reqs[r].bypass /\ ~reqs[r].chain)
    => /\ reqs[r].nCompleted + reqs[r].nFailed <= 1
       /\ ~(reqs[r].nCompleted > 0 /\ reqs[r].nFailed > 0)

\* C24: the duration of every 'Request completed' and 'Request failed'
\* record is the clock at the time it is written minus the clock when the
\* request started, whatever that start value was, and is never negative.
C24_Duration ==
  (last.op \in {"json", "send", "end", "throw", "hostError"} /\ reqs[last.who].patched)
  => \A n \in 1..Len(out) :
       /\ Get(out[n].line, "duration") = N(clock - reqs[last.who].startTime.n)
       /\ Get(out[n].line, "duration").n >= 0

\* C25: a request is bypassed exactly when its URL is the string
\* '/api/health'.  Every other URL, the health path with a query string or
\* a trailing slash included, is logged normally: it gets a request id, a
\* start time and a request logger, its incoming record is attempted at
\* info level and carries that URL, and its response is intercepted.
C25_ExactHealthUrl ==
  /\ \A r \in 1..MaxReq :
       reqs[r].pc # "idle"
       => /\ reqs[r].bypass <=> reqs[r].url = S(HEALTH)
          /\ ~reqs[r].bypass
             => /\ reqs[r].id # U /\ reqs[r].startTime # U
                /\ reqs[r].logger # U /\ reqs[r].patched
                /\ reqs[r].nIncoming = IF isLevelEnabled(reqs[r].logger.level, "info")
                                       THEN 1 ELSE 0
  /\ (last.op = "withLogging" /\ reqs[last.who].url # S(HEALTH))
     => /\ last.logs = << attempt(reqs[last.who].logger, "info") >>
        /\ isLevelEnabled(reqs[last.who].logger.level, "info")
           => /\ Len(out) = 1
              /\ Get(out[1].line, "msg") = S("Incoming request")
              /\ Get(out[1].line, "requestId") = reqs[last.who].id
              /\ reqs[last.who].url # U
                 => Get(out[1].line, "url") = reqs[last.who].url
  /\ (last.op \in {"json", "end"} /\ reqs[last.who].url # S(HEALTH))
     => /\ Len(last.info) > 1
        /\ isLevelEnabled(reqs[last.who].logger.level, "info") => Len(out) >= 1

\* a request to the health path with a query string got its incoming record
\* and, when its handler answered, a completion record
C25_Witness ==
  \E r \in 1..MaxReq :
    /\ reqs[r].url = S("/api/health?check=1")
    /\ ~reqs[r].bypass
    /\ reqs[r].nIncoming = 1
    /\ last.op = "end" /\ last.who = r
    /\ Len(out) = 1
    /\ Get(out[1].line, "msg") = S("Request completed")

\* C21: with several requests in flight, every record written for a
\* request carries that request's own id and its own method and URL, and is
\* written by its own request logger; all records of one request carry one
\* request id.
C21_OwnIdentity ==
  /\ \A r \in 1..MaxConc :
       /\ Cardinality(reqs[r].records) <= 1
       /\ (reqs[r].records # {})
            <=> (reqs[r].nIncoming + reqs[r].nCompleted + reqs[r].nFailed > 0)
       /\ \A x \in reqs[r].records :
            /\ x[1] = reqs[r].id
            /\ IsObj(x[2])
            /\ Get(x[2].o, "method") = reqs[r].method
            /\ Get(x[2].o, "url") = reqs[r].url
  /\ last.op \in {"withLogging", "json", "throw", "hostError"}
     => \A n \in 1..Len(out) :
          /\ out[n].by = reqs[last.who].logger
          /\ Get(out[n].line, "requestId") = reqs[last.who].id

\* two requests with different ids and URLs are in flight, both have their
\* incoming record, the first to start has answered after the second started
C21_Witness ==
  /\ reqs[1].pc = "running" /\ reqs[2].pc = "running"
  /\ reqs[1].id # reqs[2].id
  /\ reqs[1].url # reqs[2].url
  /\ reqs[1].nIncoming = 1 /\ reqs[2].nIncoming = 1
  /\ last.op = "json" /\ last.who = 1
  /\ reqs[1].nCompleted > 0
  /\ reqs[2].ops = 0

====
